---- MODULE Spec2Model ----
(***************************************************************************)
(* Synthetic social graph generator (streamlit_app.py): the probability    *)
(* model base_probability, the sampling loop of generate_social_graph and  *)
(* the repair loop ensure_minimum_two, as one state machine.               *)
(*                                                                         *)
(* Handles are the row numbers 1..n of the uploaded table (unique).        *)
(* A tag is a sequence of characters, a tag_list a sequence of tags.       *)
(* A list of edges is kept as the bag of its pairs: no step reads the      *)
(* order of the list, and a pair appended twice is counted twice.          *)
(* Probabilities are exact fractions [num, den]; the sliders' values are   *)
(* integers in units of 1/ProbUnits (probabilities), 1/ScaleUnits          *)
(* (bandwagon_scale) and 1/ThresholdUnits (big_follow_threshold).          *)
(***************************************************************************)
EXTENDS Integers, Sequences, FiniteSets, Bags, TLC

VARIABLES
    roster,            \* df rows: Handle -> [Faction, tag_list, TwFollowers, TwFollowing]
    params,            \* the keyword arguments of generate_social_graph
    personas,          \* the list personas (of handles), in its current order
    F_current,         \* person["F_current"], by handle
    f_current,         \* person["f_current"], by handle
    edges,             \* the list edges of generate_social_graph, as a bag of (follower, followed)
    u_pos,             \* position in personas of the for-loop variable U (0: before the loop)
    possible_targets,  \* the shuffled list possible_targets of the current U
    V,                 \* the handle popped last (0: none)
    p,                 \* the probability computed last, [num, den]
    out_edges,         \* ensure_minimum_two: out_edges[i], by position in personas
    in_edges,          \* ensure_minimum_two: in_edges[i]
    tries,             \* ensure_minimum_two: tries
    changed,           \* ensure_minimum_two: changed
    i,                 \* ensure_minimum_two: the for-loop index i (1-based)
    F_count,           \* ensure_minimum_two: F_count of the current i
    final_edges,       \* ensure_minimum_two: final_edges, as a bag
    pc                 \* the position of the run

vars == <<roster, params, personas, F_current, f_current, edges, u_pos,
          possible_targets, V, p, out_edges, in_edges, tries, changed, i,
          F_count, final_edges, pc>>

-----------------------------------------------------------------------------
(* Bounds of the model *)

MaxN == 3          \* largest roster
MaxTw == 2         \* largest TwFollowers / TwFollowing of a row
MaxTags == 2       \* longest tag_list of the base_probability runs
DrawRes == 4       \* random.random() returns k/DrawRes, k in 0..DrawRes-1

(* Units of the numeric parameters *)
ProbUnits == 20        \* slider step 0.05
ScaleUnits == 10       \* slider step 0.1
ThresholdUnits == 2    \* slider step 0.5
DampDen == 5           \* p *= 0.2
NoFollowersRatio == 99999
max_tries == 1000

-----------------------------------------------------------------------------
(* Generic helpers *)

Range(s) == {s[k] : k \in 1..Len(s)}

\* the lists that hold each element of S once
RECURSIVE Perms(_)
Perms(S) ==
    IF S = {} THEN {<<>>}
    ELSE UNION {{Append(t, x) : t \in Perms(S \ {x})} : x \in S}

Max(a, b) == IF a >= b THEN a ELSE b

MinOf(S) == CHOOSE x \in S : \A y \in S : x <= y

\* the bag of the elements of a list
ListToBag(s) == [e \in Range(s) |-> Cardinality({k \in 1..Len(s) : s[k] = e})]

RECURSIVE SetToSeq(_)
SetToSeq(S) == IF S = {} THEN <<>> ELSE <<MinOf(S)>> \o SetToSeq(S \ {MinOf(S)})

n == Len(personas)

-----------------------------------------------------------------------------
(* Tags *)

HubTag == <<"#", "h", "u", "b">>
HubPrefix == <<"#", "h", "u", "b", "_">>
HubUk == <<"#", "h", "u", "b", "_", "u", "k">>
HubFr == <<"#", "h", "u", "b", "_", "f", "r">>
Uk == <<"#", "u", "k">>
Fr == <<"#", "f", "r">>

startswith(tag, prefix) ==
    /\ Len(tag) >= Len(prefix)
    /\ SubSeq(tag, 1, Len(prefix)) = prefix

\* tag.split("_", 1)[1]: what follows the first "_"
split1(tag) ==
    LET k == CHOOSE k \in 1..Len(tag) : tag[k] = "_" /\ \A j \in 1..(k-1) : tag[j] # "_"
    IN SubSeq(tag, k + 1, Len(tag))

None == <<>>

IsCountryHubTag(tag) == startswith(tag, HubPrefix) /\ Len(tag) > 5

find_country_hub_tag(tag_list) ==
    IF \E k \in 1..Len(tag_list) : IsCountryHubTag(tag_list[k])
    THEN LET k == CHOOSE k \in 1..Len(tag_list) :
                    /\ IsCountryHubTag(tag_list[k])
                    /\ \A j \in 1..(k-1) : ~IsCountryHubTag(tag_list[j])
         IN split1(tag_list[k])
    ELSE None

base_probability(UU, VV, hub_country_probability, hub_global_probability, p_intra_faction, p_inter_faction) ==
    LET hub_country_tag == find_country_hub_tag(VV.tag_list)
    IN IF hub_country_tag # None /\ (<<"#">> \o hub_country_tag) \in Range(UU.tag_list)
       THEN hub_country_probability
       ELSE IF HubTag \in Range(VV.tag_list)
       THEN hub_global_probability
       ELSE IF UU.Faction = VV.Faction
       THEN p_intra_faction
       ELSE p_inter_faction

-----------------------------------------------------------------------------
(* generate_social_graph: the sampling loop *)

F_desired(h) == roster[h].TwFollowers     \* int(person["TwFollowers"])
f_desired(h) == roster[h].TwFollowing     \* int(person["TwFollowing"])

max_desired_followers ==
    LET S == {roster[h].TwFollowers : h \in {x \in DOMAIN roster : roster[x].TwFollowers > 0}}
    IN IF S = {} THEN 1 ELSE CHOOSE m \in S : \A x \in S : x <= m

\* the current U of the for loop
U == personas[u_pos]

\* a candidate pool that keeps U itself
OtherPersonasKeepsSelf(h) == Range(personas)

\* [p for p in personas if p["Handle"] != U["Handle"]], as the set a shuffle permutes
OtherPersonas(h) == {x \in Range(personas) : x # h}

\* a loop condition that is off by one
WhileConditionOffByOne ==
    /\ u_pos > 0
    /\ f_current[personas[u_pos]] <= roster[personas[u_pos]].TwFollowing
    /\ possible_targets # <<>>

\* while U["f_current"] < U["f_desired"] and possible_targets
WhileCondition ==
    /\ u_pos > 0
    /\ f_current[U] < f_desired(U)
    /\ possible_targets # <<>>

\* ratio_uf_to_vf, as a fraction
ratio_uf_to_vf(hu, hv) ==
    IF roster[hv].TwFollowers > 0
    THEN [num |-> roster[hu].TwFollowers, den |-> Max(1, roster[hv].TwFollowers)]
    ELSE [num |-> NoFollowersRatio, den |-> 1]

is_U_big(hu, hv) == ratio_uf_to_vf(hu, hv).num > ratio_uf_to_vf(hu, hv).den

\* ratio_uf_to_vf > big_follow_threshold or (V["TwFollowers"] < min_follow_cutoff and is_U_big)
BigFollowsSmall(hu, hv) ==
    \/ ratio_uf_to_vf(hu, hv).num * ThresholdUnits
           > params.big_follow_threshold * ratio_uf_to_vf(hu, hv).den
    \/ (roster[hv].TwFollowers < params.min_follow_cutoff /\ is_U_big(hu, hv))

\* a probability that is damped whether or not V is full
FollowProbabilityAlwaysDamped(hu, hv) ==
    LET base == base_probability(roster[hu], roster[hv],
                                 params.hub_country_probability,
                                 params.hub_global_probability,
                                 params.p_intra_faction,
                                 params.p_inter_faction)
        num1 == base * (ScaleUnits * max_desired_followers
                          + params.bandwagon_scale * roster[hv].TwFollowers)
        den1 == ProbUnits * ScaleUnits * max_desired_followers
    IN [num |-> IF BigFollowsSmall(hu, hv) THEN 0 ELSE num1, den |-> den1 * DampDen]

\* the value of p at the random draw, for follower hu and target hv
FollowProbability(hu, hv) ==
    LET base == base_probability(roster[hu], roster[hv],
                                 params.hub_country_probability,
                                 params.hub_global_probability,
                                 params.p_intra_faction,
                                 params.p_inter_faction)
        num1 == base * (ScaleUnits * max_desired_followers
                          + params.bandwagon_scale * roster[hv].TwFollowers)
        den1 == ProbUnits * ScaleUnits * max_desired_followers
        num2 == IF BigFollowsSmall(hu, hv) THEN 0 ELSE num1
        den2 == IF F_current[hv] >= F_desired(hv) THEN den1 * DampDen ELSE den1
    IN [num |-> num2, den |-> den2]

\* random.random() < p, for the draw k/DrawRes
DrawBelow(k, q) == k * q.den < q.num * DrawRes

Reverse(s) == [j \in 1..Len(s) |-> s[Len(s) + 1 - j]]

\* the outcomes of random.shuffle(personas) that are explored: every order of a
\* list of at most MaxN rows; of a longer one, the list and its reverse
ShuffleOutcomes(s) ==
    IF Len(s) <= MaxN THEN Perms(Range(s)) ELSE {s, Reverse(s)}

\* random.shuffle(personas)
Shuffle ==
    /\ pc = "start"
    /\ personas' \in ShuffleOutcomes(personas)
    /\ pc' = "sampling"
    /\ UNCHANGED <<roster, params, F_current, f_current, edges, u_pos,
                   possible_targets, V, p, out_edges, in_edges, tries, changed,
                   i, F_count, final_edges>>

\* for U in personas: build and shuffle possible_targets
NextU ==
    /\ pc = "sampling"
    /\ ~WhileCondition
    /\ u_pos < n
    /\ u_pos' = u_pos + 1
    /\ possible_targets' \in Perms(OtherPersonas(personas[u_pos + 1]))
    /\ V' = 0
    /\ UNCHANGED <<roster, params, personas, F_current, f_current, edges, p,
                   out_edges, in_edges, tries, changed, i, F_count, final_edges, pc>>

\* one iteration of the while loop: pop V, compute p, draw, commit
Trial ==
    /\ pc = "sampling"
    /\ WhileCondition
    /\ \E k \in 0..(DrawRes - 1) :
         LET hv == possible_targets[Len(possible_targets)]
             q == FollowProbability(U, hv)
         IN /\ possible_targets' = SubSeq(possible_targets, 1, Len(possible_targets) - 1)
            /\ V' = hv
            /\ p' = q
            /\ IF DrawBelow(k, q)
               THEN /\ edges' = edges (+) SetToBag({<<U, hv>>})
                    /\ f_current' = [f_current EXCEPT ![U] = @ + 1]
                    /\ F_current' = [F_current EXCEPT ![hv] = @ + 1]
               ELSE UNCHANGED <<edges, f_current, F_current>>
    /\ UNCHANGED <<roster, params, personas, u_pos, out_edges, in_edges, tries,
                   changed, i, F_count, final_edges, pc>>

\* the for loop is over: ensure_minimum_two(personas, edges) is called.
\* The loop's locals possible_targets, V and p are not read again.
SamplingDone ==
    /\ pc = "sampling"
    /\ ~WhileCondition
    /\ u_pos = n
    /\ pc' = "ensure"
    /\ possible_targets' = <<>>
    /\ V' = 0
    /\ p' = [num |-> 0, den |-> 1]
    /\ UNCHANGED <<roster, params, personas, F_current, f_current, edges, u_pos,
                   out_edges, in_edges, tries, changed, i, F_count, final_edges>>

-----------------------------------------------------------------------------
(* ensure_minimum_two *)

\* handle_to_index: the position of a handle in personas
handle_to_index(h) == CHOOSE k \in 1..n : personas[k] = h

\* an update that overwrites the set instead of adding to it
AddOutOverwrites(oe, ui, vi) == [oe EXCEPT ![ui] = {vi}]

\* out_edges[ui].add(vi); in_edges[vi].add(ui)
AddOut(oe, ui, vi) == [oe EXCEPT ![ui] = @ \cup {vi}]
AddIn(ie, ui, vi) == [ie EXCEPT ![vi] = @ \cup {ui}]

\* the edges of the list whose two handles are in handle_to_index
IndexedEdges ==
    {<<handle_to_index(e[1]), handle_to_index(e[2])>> :
        e \in {x \in BagToSet(edges) : x[1] \in Range(personas) /\ x[2] \in Range(personas)}}

\* the adjacency sets are built from edges; tries = 0
BuildAdjacency ==
    /\ pc = "ensure"
    /\ out_edges' = [ui \in 1..n |-> {e[2] : e \in {x \in IndexedEdges : x[1] = ui}}]
    /\ in_edges' = [vi \in 1..n |-> {e[1] : e \in {x \in IndexedEdges : x[2] = vi}}]
    /\ tries' = 0
    /\ pc' = "while_tries"
    /\ UNCHANGED <<roster, params, personas, F_current, f_current, edges, u_pos,
                   possible_targets, V, p, changed, i, F_count, final_edges>>

\* while tries < max_tries: tries += 1; changed = False
PassStart ==
    /\ pc = "while_tries"
    /\ IF tries < max_tries
       THEN /\ tries' = tries + 1
            /\ changed' = FALSE
            /\ i' = 1
            /\ pc' = IF n = 0 THEN "pass_end" ELSE "fix_out"
       ELSE /\ pc' = "flatten"
            /\ UNCHANGED <<tries, changed, i>>
    /\ UNCHANGED <<roster, params, personas, F_current, f_current, edges, u_pos,
                   possible_targets, V, p, out_edges, in_edges, F_count, final_edges>>

\* [idx for idx in range(n) if idx != i]
all_indices(idx) == (1..n) \ {idx}

\* [x for x in in_edges[i] if i not in out_edges[x]]
potential_follow_backs(idx) == {x \in in_edges[idx] : idx \notin out_edges[x]}

\* [x for x in out_edges[i] if i not in out_edges[x]]
potential_followers(idx) == {x \in out_edges[idx] : idx \notin out_edges[x]}

\* persona i: f_count and F_count are read, then "Need >= 2 following"
FixOut ==
    /\ pc = "fix_out"
    /\ F_count' = Cardinality(in_edges[i])
    /\ IF Cardinality(out_edges[i]) < 2
       THEN IF potential_follow_backs(i) # {}
            THEN \E target \in potential_follow_backs(i) :
                    /\ out_edges' = AddOut(out_edges, i, target)
                    /\ in_edges' = AddIn(in_edges, i, target)
                    /\ changed' = TRUE
                    /\ pc' = "fix_in"
            ELSE IF all_indices(i) = {}
            THEN \* random.choice([]) raises IndexError
                 /\ pc' = "raised"
                 /\ UNCHANGED <<out_edges, in_edges, changed>>
            ELSE \E random_target \in all_indices(i) :
                    /\ IF random_target \notin out_edges[i]
                       THEN /\ out_edges' = AddOut(out_edges, i, random_target)
                            /\ in_edges' = AddIn(in_edges, i, random_target)
                            /\ changed' = TRUE
                       ELSE UNCHANGED <<out_edges, in_edges, changed>>
                    /\ pc' = "fix_in"
       ELSE /\ pc' = "fix_in"
            /\ UNCHANGED <<out_edges, in_edges, changed>>
    /\ UNCHANGED <<roster, params, personas, F_current, f_current, edges, u_pos,
                   possible_targets, V, p, tries, i, final_edges>>

\* persona i: "Need >= 2 followers", then the next persona
FixIn ==
    /\ pc = "fix_in"
    /\ IF F_count < 2
       THEN IF potential_followers(i) # {}
            THEN \E target \in potential_followers(i) :
                    /\ out_edges' = AddOut(out_edges, target, i)
                    /\ in_edges' = AddIn(in_edges, target, i)
                    /\ changed' = TRUE
                    /\ pc' = IF i < n THEN "fix_out" ELSE "pass_end"
                    /\ i' = i + 1
            ELSE IF all_indices(i) = {}
            THEN /\ pc' = "raised"
                 /\ UNCHANGED <<out_edges, in_edges, changed, i>>
            ELSE \E random_user \in all_indices(i) :
                    /\ IF i \notin out_edges[random_user]
                       THEN /\ out_edges' = AddOut(out_edges, random_user, i)
                            /\ in_edges' = AddIn(in_edges, random_user, i)
                            /\ changed' = TRUE
                       ELSE UNCHANGED <<out_edges, in_edges, changed>>
                    /\ pc' = IF i < n THEN "fix_out" ELSE "pass_end"
                    /\ i' = i + 1
       ELSE /\ pc' = IF i < n THEN "fix_out" ELSE "pass_end"
            /\ i' = i + 1
            /\ UNCHANGED <<out_edges, in_edges, changed>>
    /\ UNCHANGED <<roster, params, personas, F_current, f_current, edges, u_pos,
                   possible_targets, V, p, tries, F_count, final_edges>>

\* if not changed: break
PassEnd ==
    /\ pc = "pass_end"
    /\ pc' = IF ~changed THEN "flatten" ELSE "while_tries"
    /\ UNCHANGED <<roster, params, personas, F_current, f_current, edges, u_pos,
                   possible_targets, V, p, out_edges, in_edges, tries, changed, i,
                   F_count, final_edges>>

\* the pairs of persona ui, in the iteration order of out_edges[ui]
RECURSIVE FlattenFrom(_)
FlattenFrom(ui) ==
    IF ui > n THEN <<>>
    ELSE LET targets == SetToSeq(out_edges[ui])
         IN [k \in 1..Len(targets) |-> <<personas[ui], personas[targets[k]]>>]
              \o FlattenFrom(ui + 1)

\* final_edges is built and returned
Flatten ==
    /\ pc = "flatten"
    /\ final_edges' = ListToBag(FlattenFrom(1))
    /\ pc' = "returned"
    /\ UNCHANGED <<roster, params, personas, F_current, f_current, edges, u_pos,
                   possible_targets, V, p, out_edges, in_edges, tries, changed, i,
                   F_count>>

\* edges = ensure_minimum_two(personas, edges); return edges, handle_to_name, personas
Return ==
    /\ pc = "returned"
    /\ edges' = final_edges
    /\ pc' = "done"
    /\ UNCHANGED <<roster, params, personas, F_current, f_current, u_pos,
                   possible_targets, V, p, out_edges, in_edges, tries, changed, i,
                   F_count, final_edges>>

-----------------------------------------------------------------------------
(* The runs of generate_social_graph *)

Factions == {"red"}

DefaultParams ==
    [hub_country_probability |-> 12,   \* 0.6
     hub_global_probability |-> 10,    \* 0.5
     p_intra_faction |-> 6,            \* 0.3
     p_inter_faction |-> 2,            \* 0.1
     bandwagon_scale |-> 5,            \* 0.5
     big_follow_threshold |-> 6,       \* 3.0
     min_follow_cutoff |-> 1000]

\* the sliders' settings of the runs
GenParams ==
    {DefaultParams,
     [DefaultParams EXCEPT !.big_follow_threshold = 2, !.min_follow_cutoff = 0]}

GenRows ==
    [Faction : Factions, tag_list : {<<>>},
     TwFollowers : 0..MaxTw, TwFollowing : 0..MaxTw]

NoProbability == [num |-> 0, den |-> 1]

\* personas is shuffled before any row is read, so the order of the rows in the
\* table is immaterial: the tables are listed with their rows in nondecreasing order
RowKey(row) == row.TwFollowers * (MaxTw + 1) + row.TwFollowing

GenRosters ==
    UNION {{r \in [1..k -> GenRows] :
              \A a \in 1..k : \A b \in 1..k : a < b => RowKey(r[a]) <= RowKey(r[b])} :
           k \in 0..MaxN}

\* the state of generate_social_graph once the counters are initialised
InitRun(r, prm, e) ==
    /\ roster = r
    /\ params = prm
    /\ personas = [k \in 1..Len(r) |-> k]
    /\ F_current = [k \in 1..Len(r) |-> 0]
    /\ f_current = [k \in 1..Len(r) |-> 0]
    /\ edges = e
    /\ u_pos = 0
    /\ possible_targets = <<>>
    /\ V = 0
    /\ p = NoProbability
    /\ out_edges = <<>>
    /\ in_edges = <<>>
    /\ tries = 0
    /\ changed = FALSE
    /\ i = 0
    /\ F_count = 0
    /\ final_edges = EmptyBag

Init ==
    /\ \E r \in GenRosters : \E prm \in GenParams : InitRun(r, prm, EmptyBag)
    /\ pc = "start"

Next ==
    \/ Shuffle
    \/ NextU
    \/ Trial
    \/ SamplingDone
    \/ BuildAdjacency
    \/ PassStart
    \/ FixOut
    \/ FixIn
    \/ PassEnd
    \/ Flatten
    \/ Return

Spec == Init /\ [][Next]_vars

-----------------------------------------------------------------------------
(* The runs of ensure_minimum_two alone, from every edge list without a     *)
(* self-follow (generate_social_graph passes none) over at most MaxN rows   *)

PlainRow == [Faction |-> "red", tag_list |-> <<>>, TwFollowers |-> 0, TwFollowing |-> 0]

OrderedPairs(k) == {e \in (1..k) \X (1..k) : e[1] # e[2]}

InitRepair ==
    /\ \E k \in 0..MaxN : \E E \in SUBSET OrderedPairs(k) :
         InitRun([j \in 1..k |-> PlainRow], DefaultParams, SetToBag(E))
    /\ pc = "ensure"

NextRepair ==
    \/ BuildAdjacency
    \/ PassStart
    \/ FixOut
    \/ FixIn
    \/ PassEnd
    \/ Flatten

SpecRepair == InitRepair /\ [][NextRepair]_vars

-----------------------------------------------------------------------------
(* The calls of base_probability(U, V, ...) on two rows with any tag lists  *)

TagPool == {HubTag, HubPrefix, HubUk, HubFr, Uk, Fr}

TagLists == UNION {[1..k -> TagPool] : k \in 0..MaxTags}

BaseRows ==
    [Faction : {"red", "blue"}, tag_list : TagLists, TwFollowers : {1}, TwFollowing : {1}]

InitBase ==
    /\ \E r \in [1..2 -> BaseRows] : InitRun(r, DefaultParams, EmptyBag)
    /\ pc = "base"

\* p = base_probability(U, V, ...), for U and V two different rows
CallBaseProbability ==
    /\ pc = "base"
    /\ \E hu \in 1..n : \E hv \in OtherPersonas(hu) :
         /\ u_pos' = hu
         /\ V' = hv
         /\ p' = [num |-> base_probability(roster[hu], roster[hv],
                                           params.hub_country_probability,
                                           params.hub_global_probability,
                                           params.p_intra_faction,
                                           params.p_inter_faction),
                  den |-> ProbUnits]
    /\ pc' = "base_done"
    /\ UNCHANGED <<roster, params, personas, F_current, f_current, edges,
                   possible_targets, out_edges, in_edges, tries, changed, i,
                   F_count, final_edges>>

SpecBase == InitBase /\ [][CallBaseProbability]_vars

-----------------------------------------------------------------------------
(* The sampling phase on the roster of 5 personas with desired_in =         *)
(* desired_out = 2, one faction, no tags, and p_intra_faction = 1.0         *)

ScenarioRow == [Faction |-> "red", tag_list |-> <<>>, TwFollowers |-> 2, TwFollowing |-> 2]

InitScenario ==
    /\ InitRun([k \in 1..5 |-> ScenarioRow], [DefaultParams EXCEPT !.p_intra_faction = 20],
               EmptyBag)
    /\ pc = "start"

NextSampling ==
    \/ Shuffle
    \/ NextU
    \/ Trial
    \/ SamplingDone

SpecScenario == InitScenario /\ [][NextSampling]_vars

-----------------------------------------------------------------------------
(* Degrees *)

Handles == DOMAIN roster

RECURSIVE Copies(_, _)
Copies(B, S) ==
    IF S = {} THEN 0
    ELSE LET e == CHOOSE x \in S : TRUE
         IN CopiesIn(e, B) + Copies(B, S \ {e})

\* the number of edges of the list B whose follower (followed) is h
OutCount(B, h) == Copies(B, {e \in BagToSet(B) : e[1] = h})
InCount(B, h) == Copies(B, {e \in BagToSet(B) : e[2] = h})

NoSelfNoDuplicate(B) ==
    \A e \in BagToSet(B) : e[1] # e[2] /\ CopiesIn(e, B) = 1

-----------------------------------------------------------------------------
(* Claims *)

\* C1: in a run of generate_social_graph on unique handles, the edge list (the
\* sampled list, the list ensure_minimum_two builds, and the list returned) has
\* no edge (u, u) and holds no ordered pair more than once.
C1_NoSelfFollowNoDuplicate ==
    /\ NoSelfNoDuplicate(edges)
    /\ NoSelfNoDuplicate(final_edges)

\* C1 witness: a run of three personas has returned edges, some of them sampled
\* and some added by the repair.
C1_Witness ==
    /\ pc = "done"
    /\ n = 3
    /\ \E h \in Handles : f_current[h] > 0
    /\ \E h \in Handles : OutCount(edges, h) > f_current[h]

\* C3: in every state of a run, after each commit of the sampling loop and in the
\* state returned after the repair, f_current is the number of edges whose
\* follower is the persona and F_current the number whose followed is the persona.
C3_CountersEqualDegrees ==
    pc \in {"sampling", "ensure", "done"} =>
        \A h \in Handles :
            /\ f_current[h] = OutCount(edges, h)
            /\ F_current[h] = InCount(edges, h)

\* the ratio of the specification: U.desired_in / max(1, V.desired_in), infinite
\* only when V.desired_in = 0 and U.desired_in > 0
ClaimedRatioExceeds(hu, hv, num, den) ==
    IF roster[hv].TwFollowers = 0 /\ roster[hu].TwFollowers > 0
    THEN TRUE
    ELSE roster[hu].TwFollowers * den > num * Max(1, roster[hv].TwFollowers)

ClaimedSuppressed(hu, hv) ==
    \/ ClaimedRatioExceeds(hu, hv, params.big_follow_threshold, ThresholdUnits)
    \/ /\ roster[hv].TwFollowers < params.min_follow_cutoff
       /\ ClaimedRatioExceeds(hu, hv, 1, 1)

\* C6: at each trial of the sampling loop the probability of (U, V) is 0 exactly
\* when ratio > big_follow_threshold or (V.desired_in < min_follow_cutoff and
\* ratio > 1), the ratio being infinite only for V.desired_in = 0 < U.desired_in.
C6_SuppressedExactlyWhen ==
    (pc = "sampling" /\ V # 0) => ((p.num = 0) <=> ClaimedSuppressed(U, V))

\* C9: while sampling and when sampling has ended, no persona has more outgoing
\* edges than desired_out, a persona with desired_out = 0 has none, and no pair
\* (U, V) gets a second trial: the targets still to try are distinct, are not U,
\* and none of them is already followed by U.
C9_SamplingWithinBudget ==
    pc \in {"sampling", "ensure"} =>
        /\ \A h \in Handles :
              /\ f_current[h] <= f_desired(h)
              /\ OutCount(edges, h) <= f_desired(h)
              /\ f_desired(h) = 0 => OutCount(edges, h) = 0
        /\ \A a, b \in 1..Len(possible_targets) :
              a # b => possible_targets[a] # possible_targets[b]
        /\ u_pos > 0 =>
              \A hv \in Range(possible_targets) :
                  hv # U /\ <<U, hv>> \notin BagToSet(edges)

\* C9 witness: sampling has ended, a persona with desired_out = 0 follows nobody
\* but is followed, and another persona has filled a desired_out of 2.
C9_Witness ==
    /\ pc = "ensure"
    /\ \E h \in Handles :
          f_desired(h) = 0 /\ OutCount(edges, h) = 0 /\ InCount(edges, h) > 0
    /\ \E h \in Handles : f_desired(h) = 2 /\ OutCount(edges, h) = 2

\* C7 as stated: on the roster of 5 personas (desired_in = desired_out = 2, one
\* faction, no tags, p_intra_faction = 1.0) the sampling phase alone leaves every
\* persona with out-degree >= 2 and in-degree >= 2.
C7_SamplingMeetsFloor ==
    pc = "ensure" =>
        \A h \in Handles : OutCount(edges, h) >= 2 /\ InCount(edges, h) >= 2

\* C7 as amended: on that roster the sampling phase never gives a persona more
\* than 2 outgoing edges, and each of the first three personas of the shuffled
\* order has exactly 2 once its loop is over (and so when sampling ends).
C7_SamplingFirstThreeFilled ==
    pc \in {"sampling", "ensure"} =>
        /\ \A h \in Handles : OutCount(edges, h) <= 2
        /\ \A k \in 1..3 :
              (k < u_pos \/ pc = "ensure") => OutCount(edges, personas[k]) = 2

\* C7 witness: sampling has ended on that roster with a persona of out-degree
\* below 2 and a persona of in-degree below 2.
C7_Witness ==
    /\ pc = "ensure"
    /\ n = 5
    /\ \E h \in Handles : OutCount(edges, h) < 2
    /\ \E h \in Handles : InCount(edges, h) < 2

\* C2: when ensure_minimum_two returns on at least 3 personas after a pass that
\* made no change, every persona has out-degree >= 2 and in-degree >= 2.
C2_FloorAtFixedPoint ==
    (pc = "returned" /\ n >= 3 /\ ~changed /\ tries < max_tries) =>
        \A h \in Handles :
            OutCount(final_edges, h) >= 2 /\ InCount(final_edges, h) >= 2

\* C4: for every population size ensure_minimum_two uses at most 1000 passes and
\* never aborts with an error instead of returning.
C4_ReturnsWithoutError ==
    /\ pc # "raised"
    /\ tries <= max_tries

\* the followers of persona idx whom idx does not follow back
FollowersNotFollowedBack(idx) == {x \in in_edges[idx] : x \notin out_edges[idx]}

\* the personas idx follows who do not follow idx back
FollowedNotFollowingBack(idx) == {x \in out_edges[idx] : x \notin in_edges[idx]}

\* a repair step of persona i that has a reciprocation candidate uses one
StepReciprocates ==
    /\ (/\ pc = "fix_out"
        /\ Cardinality(out_edges[i]) < 2
        /\ FollowersNotFollowedBack(i) # {})
       => \E x \in FollowersNotFollowedBack(i) :
             out_edges'[i] = out_edges[i] \cup {x}
    /\ (/\ pc = "fix_in"
        /\ F_count < 2
        /\ FollowedNotFollowingBack(i) # {})
       => \E x \in FollowedNotFollowingBack(i) :
             in_edges'[i] = in_edges[i] \cup {x}

\* C8: in every repair step reciprocation is preferred: a persona with
\* out-degree < 2 and a follower not followed back gets its new edge to one of
\* those followers; a persona with in-degree < 2 who follows someone not
\* following back gets its new edge from one of those personas.
C8_ReciprocationPreferred ==
    [][StepReciprocates]_vars

\* the pairs of handles the adjacency sets hold
AdjacencyPairs(oe) ==
    {<<personas[ui], personas[vi]>> : ui \in 1..n, vi \in 1..n} \cap
    {e \in Handles \X Handles :
        handle_to_index(e[2]) \in oe[handle_to_index(e[1])]}

\* a step after the adjacency sets are built takes no element out of them
StepKeepsAdjacency ==
    pc \in {"while_tries", "fix_out", "fix_in", "pass_end", "flatten"} =>
        \A idx \in 1..n :
            /\ out_edges[idx] \subseteq out_edges'[idx]
            /\ in_edges[idx] \subseteq in_edges'[idx]

\* C10: ensure_minimum_two only adds edges: every edge of the input list is in
\* the adjacency sets and in the returned list, and no step of a pass takes an
\* element out of an adjacency set.
C10_RepairOnlyAdds ==
    /\ [](pc \in {"while_tries", "fix_out", "fix_in", "pass_end", "flatten", "returned"}
            => BagToSet(edges) \subseteq AdjacencyPairs(out_edges))
    /\ [](pc = "returned" => BagToSet(edges) \subseteq BagToSet(final_edges))
    /\ [][StepKeepsAdjacency]_vars

\* C10 witness: ensure_minimum_two has returned a list that holds the input
\* edges and edges it added.
C10_Witness ==
    /\ pc = "returned"
    /\ n = 3
    /\ BagToSet(edges) # {}
    /\ BagToSet(edges) \subseteq BagToSet(final_edges)
    /\ BagToSet(final_edges) # BagToSet(edges)

\* the base probability of the specification: the first rule that applies
ClaimedBase(hu, hv) ==
    IF \E t \in Range(roster[hv].tag_list) :
          /\ IsCountryHubTag(t)
          /\ (<<"#">> \o split1(t)) \in Range(roster[hu].tag_list)
    THEN params.hub_country_probability
    ELSE IF HubTag \in Range(roster[hv].tag_list)
    THEN params.hub_global_probability
    ELSE IF roster[hu].Faction = roster[hv].Faction
    THEN params.p_intra_faction
    ELSE params.p_inter_faction

\* C5: base_probability(U, V) is hub_country_probability if V carries a tag
\* #hub_<code> and U the matching #<code>, whatever V's other tags; otherwise
\* hub_global_probability if V carries #hub; otherwise p_intra_faction if the
\* factions are equal; otherwise p_inter_faction.
C5_BaseResolutionOrder ==
    pc = "base_done" => p.num = ClaimedBase(U, V)

====
